---- MODULE Spec2Model ----
(***************************************************************************)
(* State-machine model of the accounts application of the bill-payment     *)
(* API: the password-reset token store (utils.py), the reset flow,         *)
(* login/logout views (views.py), their serializers (serializers.py) and   *)
(* the per-IP rate limits declared on the views.                           *)
(***************************************************************************)
EXTENDS Integers, Sequences, FiniteSets, TLC

VARIABLES
    users,          \* auth_user table: lowercase email -> row
    redis_client,   \* utils.redis_client is a client object (TRUE) or None (FALSE)
    redis_up,       \* environment: a call on the Redis server succeeds right now
    redis,          \* contents of the Redis server: key -> [token, expires_at]
    memory_store,   \* utils._memory_store: [defined, data]
    now,            \* wall clock, in seconds
    usage,          \* rate-limit counters in the cache: <<ip, route>> -> [window, count]
    outbox,         \* password-reset mails that were sent: <<recipient, token>>
    outstanding,    \* token_blacklist OutstandingToken rows: issued refresh tokens
    blacklist,      \* token_blacklist BlacklistedToken rows: revoked refresh tokens
    req,            \* per worker: the request being handled, then its response
    lastPut,        \* history: email key -> [token, at] of the last completed store_reset_token
    consumed,       \* history: <<key, token>> used by a successful reset, no put since
    fpSeen          \* history: forgot-password outcomes observed, by case

vars == <<users, redis_client, redis_up, redis, memory_store, now, usage, outbox,
          outstanding, blacklist, req, lastPut, consumed, fpSeen>>

-----------------------------------------------------------------------------
(* Bounds of the model *)

MaxRequests == 3        \* requests one worker handles
MaxTicks == 2           \* clock advances
MaxRateRequests == 12   \* requests one worker handles in the rate-limit runs
MaxAdmissionRequests == 6   \* requests one worker handles in the admission runs
MaxAccountRequests == 3     \* requests one worker handles in the account runs
MaxConcurrentRequests == 2  \* requests each of the two workers handles
MaxOwnerRequests == 4       \* requests one worker handles in the two-account runs

(* Program constants *)

expiry_seconds == 3600  \* ForgotPasswordView: store_reset_token(..., expiry_seconds=3600)
period == 60            \* the "/m" of every ratelimit rate
REFRESH_TOKEN_LIFETIME == 86400     \* SIMPLE_JWT setting (library default, one day)
ACCESS_TOKEN_LIFETIME == 300        \* SIMPLE_JWT setting (library default, five minutes)

HTTP_200_OK == 200
HTTP_201_CREATED == 201
HTTP_400_BAD_REQUEST == 400
HTTP_401_UNAUTHORIZED == 401
HTTP_404_NOT_FOUND == 404
HTTP_429_TOO_MANY_REQUESTS == 429
HTTP_500_INTERNAL_SERVER_ERROR == 500

-----------------------------------------------------------------------------
(* Values *)

None == "None"

\* An email is a sequence of characters; <<>> is a missing or blank field.
RawEmails == { <<"a","@","x">>, <<"A","@","X">>, <<"b","@","x">>, <<"B","@","X">> }
MalformedEmail == <<"a">>
Blank == <<>>

LowerChar(c) ==
    CASE c = "A" -> "a"
      [] c = "B" -> "b"
      [] c = "X" -> "x"
      [] OTHER -> c

\* str.lower()
lower(s) == [i \in DOMAIN s |-> LowerChar(s[i])]

Keys == { lower(e) : e \in RawEmails }

Tokens == {"t1", "t2"}
Passwords == {"Str0ngP@ss1", "Str0ngP@ss2"}
WeakPassword == "123"
Workers == {1, 2}
ClientIPs == {"10.0.0.1", "10.0.0.2"}
Routes == {"login", "forgot_password", "reset_password", "verify_reset_token"}

NoUser == [exists |-> FALSE, password |-> None, is_active |-> FALSE]
NoEntry == [token |-> None, expires_at |-> 0]
NoUsage == [window |-> 0, count |-> 0]

\* A signed token: whose it is, its jti and its expiry time. jti 0: no token given;
\* jti -1: a string that is no signed token.
NoJWT == [user |-> Blank, jti |-> 0, exp |-> 0]
MalformedJWT == [user |-> Blank, jti |-> -1, exp |-> 0]

-----------------------------------------------------------------------------
(* utils.py: the token store *)

\* Mutant: the key is built from the spelling as given
Key_as_given(email) == email

\* key = f"password_reset:{email.lower()}"
Key(email) == lower(email)

\* Redis SETEX: the value with an absolute expiry time
setex(key, seconds, token) ==
    [redis EXCEPT ![key] = [token |-> token, expires_at |-> now + seconds]]

\* Redis GET: an expired key reads as missing
redis_get(key) ==
    IF redis[key].token # None /\ now < redis[key].expires_at
    THEN redis[key].token
    ELSE None

\* The Redis call is attempted iff redis_client is truthy; it raises iff the server is down.
RedisAnswers == redis_client /\ redis_up

\* Mutant: the put keeps a live entry instead of overwriting it (SET ... NX)
store_reset_token_keeps_live_entry(email, token, seconds) ==
    IF RedisAnswers
    THEN [raised |-> FALSE,
          redis |-> IF redis_get(Key(email)) # None THEN redis
                    ELSE setex(Key(email), seconds, token),
          memory_store |-> memory_store]
    ELSE IF memory_store.defined
    THEN [raised |-> FALSE, redis |-> redis,
          memory_store |-> IF memory_store.data[Key(email)] # None THEN memory_store
                           ELSE [memory_store EXCEPT !.data[Key(email)] = token]]
    ELSE [raised |-> TRUE, redis |-> redis, memory_store |-> memory_store]

store_reset_token(email, token, seconds) ==
    IF RedisAnswers
    THEN [raised |-> FALSE, redis |-> setex(Key(email), seconds, token),
          memory_store |-> memory_store]
    ELSE IF memory_store.defined
    THEN [raised |-> FALSE, redis |-> redis,
          memory_store |-> [memory_store EXCEPT !.data[Key(email)] = token]]
    ELSE [raised |-> TRUE, redis |-> redis, memory_store |-> memory_store]

get_reset_token(email) ==
    IF RedisAnswers
    THEN [raised |-> FALSE, value |-> redis_get(Key(email))]
    ELSE IF memory_store.defined
    THEN [raised |-> FALSE, value |-> memory_store.data[Key(email)]]
    ELSE [raised |-> TRUE, value |-> None]

delete_reset_token(email) ==
    IF RedisAnswers
    THEN [raised |-> FALSE, redis |-> [redis EXCEPT ![Key(email)] = NoEntry],
          memory_store |-> memory_store]
    ELSE IF memory_store.defined
    THEN [raised |-> FALSE, redis |-> redis,
          memory_store |-> [memory_store EXCEPT !.data[Key(email)] = None]]
    ELSE [raised |-> TRUE, redis |-> redis, memory_store |-> memory_store]

-----------------------------------------------------------------------------
(* The rate limits declared on the views *)

\* Mutant: verify-reset-token limited to 3 requests a minute
rate_verify_3(route) ==
    CASE route = "login" -> 5
      [] route = "forgot_password" -> 3
      [] route = "reset_password" -> 3
      [] route = "verify_reset_token" -> 3

rate(route) ==
    CASE route = "login" -> 5
      [] route = "forgot_password" -> 3
      [] route = "reset_password" -> 3
      [] route = "verify_reset_token" -> 10

\* Stand-in for crc32(ip) % period, the per-client offset of the window boundary
IpOffset(ip) == IF ip = "10.0.0.1" THEN 20 ELSE 40

\* The end of the fixed window that holds time ts for this client
get_window(ip, ts) ==
    LET w == ts - (ts % period) + IpOffset(ip)
    IN  IF w < ts THEN w + period ELSE w

\* ratelimit(key='ip', rate=..., method='POST', block=True): count the request, then decide
is_ratelimited(ip, route) ==
    LET w == get_window(ip, now)
        old == usage[<<ip, route>>]
        count == IF old.window = w THEN old.count + 1 ELSE 1
    IN  [limited |-> count > rate(route),
         usage |-> [usage EXCEPT ![<<ip, route>>] = [window |-> w, count |-> count]]]

-----------------------------------------------------------------------------
(* Requests and responses *)

Idle ==
    [pc |-> "idle", n |-> 0, route |-> "", ip |-> "", email |-> Blank, token |-> "",
     password |-> "", confirm |-> "", status |-> 0, message |-> "", errors |-> "",
     saved |-> FALSE, deleted |-> FALSE, old_password |-> "", refresh |-> NoJWT,
     access |-> NoJWT, valid |-> "absent"]

Free(w) == req[w].pc \in {"idle", "done", "crashed"}

NewRequest(w, route, ip, email, token, password, confirm) ==
    [Idle EXCEPT !.pc = "running", !.n = req[w].n + 1, !.route = route, !.ip = ip,
                 !.email = email, !.token = token, !.password = password,
                 !.confirm = confirm]

\* response_utils.success_response / error_response: {status, message, data | errors}
Response(r, status_code, message, errors) ==
    [r EXCEPT !.pc = "done", !.status = status_code, !.message = message,
              !.errors = errors]

\* The limiter raises Ratelimited before the view body runs
Ratelimited(r) == Response(r, HTTP_429_TOO_MANY_REQUESTS, "Too many requests", "")

\* An exception that leaves the view: the framework's server-error response
Unhandled(r, exc) == Response(r, HTTP_500_INTERNAL_SERVER_ERROR, "Server Error (500)", exc)

validation_error_response(r, errors) ==
    Response(r, HTTP_400_BAD_REQUEST, "Validation failed", errors)

\* serializers.EmailField(required=True)
EmailField(value) == Len(value) = 3 /\ value[2] = "@"

\* validate_password and min_length=8
validate_password(value) == value \in Passwords

-----------------------------------------------------------------------------
(* serializers.py *)

\* ForgotPasswordSerializer: EmailField, then validate_email, which rejects an
\* existing account that is not active and lets an unknown email pass.
ForgotPasswordSerializer_is_valid(email) ==
    /\ EmailField(email)
    /\ ~(users[lower(email)].exists /\ ~users[lower(email)].is_active)

\* ResetPasswordSerializer: the four required fields, validate_new_password, validate
ResetPasswordSerializer_is_valid(email, token, new_password, confirm_password) ==
    /\ EmailField(email)
    /\ token # ""
    /\ validate_password(new_password)
    /\ confirm_password # ""
    /\ new_password = confirm_password

-----------------------------------------------------------------------------
(* views.py: ForgotPasswordView.post, one step per call that touches shared state *)

\* User.objects.get(email=email, is_active=True) finds a row
ActiveUser(email) == users[email].exists /\ users[email].is_active

\* Mutant: the serializer runs before the limiter decides
ForgotPasswordBegin_validates_first(w, ip, email) ==
    /\ Free(w)
    /\ LET rl == is_ratelimited(ip, "forgot_password")
           r == NewRequest(w, "forgot_password", ip, email, "", "", "")
       IN  /\ usage' = rl.usage
           /\ IF ~ForgotPasswordSerializer_is_valid(email)
              THEN /\ req' = [req EXCEPT ![w] = validation_error_response(r, "email")]
                   /\ fpSeen' = fpSeen
              ELSE IF rl.limited
              THEN /\ req' = [req EXCEPT ![w] = Ratelimited(r)]
                   /\ fpSeen' = fpSeen
              ELSE IF ActiveUser(lower(email))
              THEN /\ \E t \in Tokens :
                        req' = [req EXCEPT ![w] = [r EXCEPT !.pc = "fp_store",
                                                            !.token = t]]
                   /\ fpSeen' = fpSeen
              ELSE LET m == "If an account with this email exists, a password reset email has been sent."
                   IN  /\ req' = [req EXCEPT ![w] =
                                     Response(r, HTTP_200_OK, m, "")]
                       /\ fpSeen' = fpSeen \cup
                             {[case |-> "no_account", status |-> HTTP_200_OK, message |-> m]}
    /\ UNCHANGED <<users, redis_client, redis_up, redis, memory_store, now, outbox,
                   outstanding, blacklist, lastPut, consumed>>

\* The decorator, the serializer, the account lookup and generate_reset_token()
ForgotPasswordBegin(w, ip, email) ==
    /\ Free(w)
    /\ LET rl == is_ratelimited(ip, "forgot_password")
           r == NewRequest(w, "forgot_password", ip, email, "", "", "")
       IN  /\ usage' = rl.usage
           /\ IF rl.limited
              THEN /\ req' = [req EXCEPT ![w] = Ratelimited(r)]
                   /\ fpSeen' = fpSeen
              ELSE IF ~ForgotPasswordSerializer_is_valid(email)
              THEN /\ req' = [req EXCEPT ![w] = validation_error_response(r, "email")]
                   /\ fpSeen' = fpSeen
              ELSE IF ActiveUser(lower(email))
              THEN /\ \E t \in Tokens :
                        req' = [req EXCEPT ![w] = [r EXCEPT !.pc = "fp_store",
                                                            !.token = t]]
                   /\ fpSeen' = fpSeen
              ELSE LET m == "If an account with this email exists, a password reset email has been sent."
                   IN  /\ req' = [req EXCEPT ![w] =
                                     Response(r, HTTP_200_OK, m, "")]
                       /\ fpSeen' = fpSeen \cup
                             {[case |-> "no_account", status |-> HTTP_200_OK, message |-> m]}
    /\ UNCHANGED <<users, redis_client, redis_up, redis, memory_store, now, outbox,
                   outstanding, blacklist, lastPut, consumed>>

\* store_reset_token(email, reset_token, expiry_seconds=3600)
ForgotPasswordStore(w) ==
    /\ req[w].pc = "fp_store"
    /\ LET r == req[w]
           email == lower(r.email)
           res == store_reset_token(email, r.token, expiry_seconds)
       IN  IF res.raised
           THEN /\ req' = [req EXCEPT ![w] = Unhandled(r, "NameError")]
                /\ UNCHANGED <<redis, memory_store, lastPut, consumed>>
           ELSE /\ redis' = res.redis
                /\ memory_store' = res.memory_store
                /\ lastPut' = [lastPut EXCEPT ![Key(email)] = [token |-> r.token, at |-> now]]
                /\ consumed' = { c \in consumed : c[1] # Key(email) }
                /\ req' = [req EXCEPT ![w].pc = "fp_send"]
    /\ UNCHANGED <<users, redis_client, redis_up, now, usage, outbox, outstanding,
                   blacklist, fpSeen>>

\* Mutant: send_password_reset_email without its try / except: the exception of
\* send_mail leaves the view
ForgotPasswordSend_raises(w, email_sent) ==
    /\ req[w].pc = "fp_send"
    /\ LET r == req[w]
       IN  IF email_sent
           THEN LET m == "Password reset email sent successfully. Please check your email."
                IN  /\ outbox' = outbox \cup {<<lower(r.email), r.token>>}
                    /\ req' = [req EXCEPT ![w] = Response(r, HTTP_200_OK, m, "")]
                    /\ fpSeen' = fpSeen \cup
                          {[case |-> "delivered", status |-> HTTP_200_OK, message |-> m]}
           ELSE /\ outbox' = outbox
                /\ req' = [req EXCEPT ![w] = Unhandled(r, "SMTPException")]
                /\ fpSeen' = fpSeen
    /\ UNCHANGED <<users, redis_client, redis_up, redis, memory_store, now, usage,
                   outstanding, blacklist, lastPut, consumed>>

\* send_password_reset_email(user, reset_token, request): True, or False when
\* send_mail raised
ForgotPasswordSend(w, email_sent) ==
    /\ req[w].pc = "fp_send"
    /\ LET r == req[w]
       IN  IF email_sent
           THEN LET m == "Password reset email sent successfully. Please check your email."
                IN  /\ outbox' = outbox \cup {<<lower(r.email), r.token>>}
                    /\ req' = [req EXCEPT ![w] = Response(r, HTTP_200_OK, m, "")]
                    /\ fpSeen' = fpSeen \cup
                          {[case |-> "delivered", status |-> HTTP_200_OK, message |-> m]}
           ELSE /\ outbox' = outbox
                /\ req' = [req EXCEPT ![w] =
                              Response(r, HTTP_500_INTERNAL_SERVER_ERROR,
                                       "Failed to send password reset email",
                                       "Please try again later")]
                /\ fpSeen' = fpSeen
    /\ UNCHANGED <<users, redis_client, redis_up, redis, memory_store, now, usage,
                   outstanding, blacklist, lastPut, consumed>>

-----------------------------------------------------------------------------
(* views.py: ResetPasswordView.post *)

\* stored_token and stored_token == token
token_matches(stored_token, token) == stored_token # None /\ stored_token = token

\* Mutant: a wrong token burns the stored one
ResetPasswordBegin_deletes_on_mismatch(w, ip, email, token, new_password, confirm_password) ==
    /\ Free(w)
    /\ LET rl == is_ratelimited(ip, "reset_password")
           r == NewRequest(w, "reset_password", ip, email, token, new_password,
                           confirm_password)
           got == get_reset_token(lower(email))
           valid == ResetPasswordSerializer_is_valid(email, token, new_password,
                                                     confirm_password)
           mismatch == ~rl.limited /\ valid /\ ~got.raised
                       /\ ~token_matches(got.value, token)
           res == delete_reset_token(lower(email))
       IN  /\ usage' = rl.usage
           /\ req' = [req EXCEPT ![w] =
                IF rl.limited THEN Ratelimited(r)
                ELSE IF ~valid THEN validation_error_response(r, "fields")
                ELSE IF got.raised THEN Unhandled(r, "NameError")
                ELSE IF ~token_matches(got.value, token)
                THEN Response(r, HTTP_400_BAD_REQUEST, "Password reset failed",
                              "Invalid or expired reset token")
                ELSE [r EXCEPT !.pc = "rp_save"]]
           /\ redis' = IF mismatch THEN res.redis ELSE redis
           /\ memory_store' = IF mismatch THEN res.memory_store ELSE memory_store
    /\ UNCHANGED <<users, redis_client, redis_up, now, outbox,
                   outstanding, blacklist, lastPut, consumed, fpSeen>>

\* The decorator, the serializer, get_reset_token and the comparison
ResetPasswordBegin(w, ip, email, token, new_password, confirm_password) ==
    /\ Free(w)
    /\ LET rl == is_ratelimited(ip, "reset_password")
           r == NewRequest(w, "reset_password", ip, email, token, new_password,
                           confirm_password)
           got == get_reset_token(lower(email))
       IN  /\ usage' = rl.usage
           /\ req' = [req EXCEPT ![w] =
                IF rl.limited THEN Ratelimited(r)
                ELSE IF ~ResetPasswordSerializer_is_valid(email, token, new_password,
                                                          confirm_password)
                THEN validation_error_response(r, "fields")
                ELSE IF got.raised THEN Unhandled(r, "NameError")
                ELSE IF ~token_matches(got.value, token)
                THEN Response(r, HTTP_400_BAD_REQUEST, "Password reset failed",
                              "Invalid or expired reset token")
                ELSE [r EXCEPT !.pc = "rp_save"]]
    /\ UNCHANGED <<users, redis_client, redis_up, redis, memory_store, now, outbox,
                   outstanding, blacklist, lastPut, consumed, fpSeen>>

\* Mutant: the token is deleted before the password is persisted
ResetPasswordSave_deletes_first(w) ==
    /\ req[w].pc = "rp_save"
    /\ LET res == delete_reset_token(lower(req[w].email))
       IN  /\ ~res.raised
           /\ redis' = res.redis
           /\ memory_store' = res.memory_store
           /\ req' = [req EXCEPT ![w].pc = "rp_delete", ![w].deleted = TRUE]
    /\ UNCHANGED <<users, redis_client, redis_up, now, usage, outbox, outstanding,
                   blacklist, lastPut, consumed, fpSeen>>

\* Mutant: set_password without save(): the new hash never reaches the table
ResetPasswordSave_without_save(w) ==
    /\ req[w].pc = "rp_save"
    /\ LET r == req[w]
           email == lower(r.email)
       IN  IF ActiveUser(email)
           THEN req' = [req EXCEPT ![w].pc = "rp_delete", ![w].saved = TRUE,
                                   ![w].old_password = users[email].password]
           ELSE req' = [req EXCEPT ![w] =
                           Response(r, HTTP_404_NOT_FOUND, "Password reset failed",
                                    "User not found")]
    /\ UNCHANGED <<users, redis_client, redis_up, redis, memory_store, now, usage,
                   outbox, outstanding, blacklist, lastPut, consumed, fpSeen>>

\* Mutant: saving the new password revokes the refresh tokens of the account
ResetPasswordSave_revokes_sessions(w) ==
    /\ req[w].pc = "rp_save"
    /\ LET r == req[w]
           email == lower(r.email)
       IN  IF ActiveUser(email)
           THEN /\ users' = [users EXCEPT ![email].password = r.password]
                /\ blacklist' = blacklist \cup {t \in outstanding : t.user = email}
                /\ req' = [req EXCEPT ![w].pc = "rp_delete", ![w].saved = TRUE,
                                       ![w].old_password = users[email].password]
           ELSE /\ users' = users
                /\ blacklist' = blacklist
                /\ req' = [req EXCEPT ![w] =
                              Response(r, HTTP_404_NOT_FOUND, "Password reset failed",
                                       "User not found")]
    /\ UNCHANGED <<redis_client, redis_up, redis, memory_store, now, usage, outbox,
                   outstanding, lastPut, consumed, fpSeen>>

\* User.objects.get(email=email, is_active=True); user.set_password(new_password);
\* user.save()
ResetPasswordSave(w) ==
    /\ req[w].pc = "rp_save"
    /\ LET r == req[w]
           email == lower(r.email)
       IN  IF ActiveUser(email)
           THEN /\ users' = [users EXCEPT ![email].password = r.password]
                /\ req' = [req EXCEPT ![w].pc = "rp_delete", ![w].saved = TRUE,
                                       ![w].old_password = users[email].password]
           ELSE /\ users' = users
                /\ req' = [req EXCEPT ![w] =
                              Response(r, HTTP_404_NOT_FOUND, "Password reset failed",
                                       "User not found")]
    /\ UNCHANGED <<redis_client, redis_up, redis, memory_store, now, usage, outbox,
                   outstanding, blacklist, lastPut, consumed, fpSeen>>

\* delete_reset_token(email), then the success response
ResetPasswordDelete(w) ==
    /\ req[w].pc = "rp_delete"
    /\ LET r == req[w]
           email == lower(r.email)
           res == delete_reset_token(email)
       IN  IF res.raised
           THEN /\ req' = [req EXCEPT ![w] = Unhandled(r, "NameError")]
                /\ UNCHANGED <<redis, memory_store, consumed>>
           ELSE /\ redis' = res.redis
                /\ memory_store' = res.memory_store
                /\ consumed' = consumed \cup {<<Key(email), r.token>>}
                /\ req' = [req EXCEPT ![w] =
                      Response([r EXCEPT !.deleted = TRUE], HTTP_200_OK,
                               "Password reset successful. You can now login with your new password.",
                               "")]
    /\ UNCHANGED <<users, redis_client, redis_up, now, usage, outbox, outstanding,
                   blacklist, lastPut, fpSeen>>

-----------------------------------------------------------------------------
(* views.py: VerifyResetTokenView.post *)

\* Mutant: a token that verifies as valid is deleted, as reset-password does
VerifyResetToken_consumes(w, ip, email, token) ==
    /\ Free(w)
    /\ LET rl == is_ratelimited(ip, "verify_reset_token")
           r == NewRequest(w, "verify_reset_token", ip, email, token, "", "")
           got == get_reset_token(lower(email))
           del == delete_reset_token(lower(email))
           valid == /\ ~rl.limited /\ email # Blank /\ token # ""
                    /\ ~got.raised /\ token_matches(got.value, token)
       IN  /\ usage' = rl.usage
           /\ redis' = IF valid THEN del.redis ELSE redis
           /\ memory_store' = IF valid THEN del.memory_store ELSE memory_store
           /\ req' = [req EXCEPT ![w] =
                IF rl.limited THEN Ratelimited(r)
                ELSE IF email = Blank \/ token = ""
                THEN Response(r, HTTP_400_BAD_REQUEST, "Token verification failed",
                              "Email and token are required")
                ELSE IF got.raised THEN Unhandled(r, "NameError")
                ELSE IF token_matches(got.value, token)
                THEN Response([r EXCEPT !.valid = "true"], HTTP_200_OK,
                              "Token is valid", "")
                ELSE Response(r, HTTP_400_BAD_REQUEST, "Token verification failed",
                              "Invalid or expired token")]
    /\ UNCHANGED <<users, redis_client, redis_up, now, outbox,
                   outstanding, blacklist, lastPut, consumed, fpSeen>>

VerifyResetToken(w, ip, email, token) ==
    /\ Free(w)
    /\ LET rl == is_ratelimited(ip, "verify_reset_token")
           r == NewRequest(w, "verify_reset_token", ip, email, token, "", "")
           got == get_reset_token(lower(email))
       IN  /\ usage' = rl.usage
           /\ req' = [req EXCEPT ![w] =
                IF rl.limited THEN Ratelimited(r)
                ELSE IF email = Blank \/ token = ""
                THEN Response(r, HTTP_400_BAD_REQUEST, "Token verification failed",
                              "Email and token are required")
                ELSE IF got.raised THEN Unhandled(r, "NameError")
                ELSE IF token_matches(got.value, token)
                THEN Response([r EXCEPT !.valid = "true"], HTTP_200_OK,
                              "Token is valid", "")
                ELSE Response(r, HTTP_400_BAD_REQUEST, "Token verification failed",
                              "Invalid or expired token")]
    /\ UNCHANGED <<users, redis_client, redis_up, redis, memory_store, now, outbox,
                   outstanding, blacklist, lastPut, consumed, fpSeen>>

-----------------------------------------------------------------------------
(* Session tokens: rest_framework_simplejwt with the token_blacklist app *)

\* RefreshToken.for_user(user): a new outstanding refresh token
for_user(email) ==
    [user |-> email, jti |-> Cardinality(outstanding) + 1,
     exp |-> now + REFRESH_TOKEN_LIFETIME]

\* refresh.access_token
access_token(refresh) ==
    [user |-> refresh.user, jti |-> refresh.jti, exp |-> now + ACCESS_TOKEN_LIFETIME]

\* RefreshToken(token): verification raises TokenError for a string that is no signed
\* token, for an expired token and for a blacklisted one
RefreshTokenRaises(token) ==
    \/ token.jti <= 0
    \/ now >= token.exp
    \/ token \in blacklist

\* JWTAuthentication + IsAuthenticated: a live access token of an active account
IsAuthenticated(access) ==
    /\ access.jti > 0
    /\ now < access.exp
    /\ users[access.user].exists /\ users[access.user].is_active

\* ModelBackend.authenticate: the row by natural key, check_password,
\* user_can_authenticate; Blank stands for the None it returns otherwise
authenticate(username, password) ==
    IF /\ username \in Keys
       /\ users[username].exists
       /\ users[username].password = password
       /\ users[username].is_active
    THEN username
    ELSE Blank

-----------------------------------------------------------------------------
(* serializers.py: UserRegistrationSerializer; views.py: UserRegistrationView.create *)

\* The unique email column of the model gives the field a UniqueValidator, which
\* compares the spelling as given; validate_email compares the lowercase spelling
UserRegistrationSerializer_email_errors(email) ==
    \/ ~EmailField(email)
    \/ users[email].exists
    \/ users[lower(email)].exists

UserRegistrationSerializer_is_valid(email, password, password_confirm) ==
    /\ ~UserRegistrationSerializer_email_errors(email)
    /\ validate_password(password)
    /\ password_confirm # ""
    /\ password = password_confirm

\* Mutant: uniqueness is checked and the account is stored under the spelling as given
Register_case_sensitive(w, email, password, password_confirm) ==
    /\ Free(w)
    /\ LET r == NewRequest(w, "register", "", email, "", password, password_confirm)
           refresh == for_user(email)
       IN  IF /\ EmailField(email) /\ ~users[email].exists
              /\ validate_password(password) /\ password = password_confirm
           THEN /\ users' = [users EXCEPT ![email] =
                               [exists |-> TRUE, password |-> password,
                                is_active |-> TRUE]]
                /\ outstanding' = outstanding \cup {refresh}
                /\ req' = [req EXCEPT ![w] =
                      Response([r EXCEPT !.refresh = refresh,
                                         !.access = access_token(refresh)],
                               HTTP_201_CREATED, "User registered successfully", "")]
           ELSE /\ users' = users
                /\ outstanding' = outstanding
                /\ req' = [req EXCEPT ![w] = validation_error_response(r, "email")]
    /\ UNCHANGED <<redis_client, redis_up, redis, memory_store, now, usage, outbox,
                   blacklist, lastPut, consumed, fpSeen>>

\* serializer.is_valid(); serializer.save() -> create_user -> User.save, which stores
\* the email in lowercase; RefreshToken.for_user(user); 201
Register(w, email, password, password_confirm) ==
    /\ Free(w)
    /\ LET r == NewRequest(w, "register", "", email, "", password, password_confirm)
           saved_email == lower(lower(email))
           refresh == for_user(saved_email)
       IN  IF UserRegistrationSerializer_is_valid(email, password, password_confirm)
           THEN /\ users' = [users EXCEPT ![saved_email] =
                               [exists |-> TRUE, password |-> password,
                                is_active |-> TRUE]]
                /\ outstanding' = outstanding \cup {refresh}
                /\ req' = [req EXCEPT ![w] =
                      Response([r EXCEPT !.refresh = refresh,
                                         !.access = access_token(refresh)],
                               HTTP_201_CREATED, "User registered successfully", "")]
           ELSE /\ users' = users
                /\ outstanding' = outstanding
                /\ req' = [req EXCEPT ![w] =
                      validation_error_response(r,
                         IF UserRegistrationSerializer_email_errors(email)
                         THEN "email" ELSE "password")]
    /\ UNCHANGED <<redis_client, redis_up, redis, memory_store, now, usage, outbox,
                   blacklist, lastPut, consumed, fpSeen>>

-----------------------------------------------------------------------------
(* views.py: LoginView.post, LogoutView.post; urls.py: TokenRefreshView *)

\* Mutant: the password is not compared: a registered active email is enough
LoginView_post_any_password(email, password) ==
    IF email = Blank \/ password = ""
    THEN [status |-> HTTP_400_BAD_REQUEST,
          message |-> "Email and password are required", issues |-> FALSE]
    ELSE IF lower(email) \in Keys /\ ActiveUser(lower(email))
    THEN [status |-> HTTP_200_OK, message |-> "Login successful", issues |-> TRUE]
    ELSE [status |-> HTTP_401_UNAUTHORIZED, message |-> "Invalid email or password",
          issues |-> FALSE]

\* Mutant: logout refuses a refresh token that was issued to another account
Logout_checks_owner(w, access, refresh_token) ==
    /\ Free(w)
    /\ LET r == [NewRequest(w, "logout", "", Blank, "", "", "")
                    EXCEPT !.refresh = refresh_token, !.access = access]
       IN  IF ~IsAuthenticated(access)
           THEN /\ req' = [req EXCEPT ![w] =
                              Response(r, HTTP_401_UNAUTHORIZED,
                                       "Authentication credentials were not provided.", "")]
                /\ blacklist' = blacklist
           ELSE IF refresh_token = NoJWT
           THEN /\ req' = [req EXCEPT ![w] =
                              Response(r, HTTP_400_BAD_REQUEST,
                                       "Refresh token is required", "")]
                /\ blacklist' = blacklist
           ELSE IF RefreshTokenRaises(refresh_token) \/ refresh_token.user # access.user
           THEN /\ req' = [req EXCEPT ![w] =
                              Response(r, HTTP_400_BAD_REQUEST,
                                       "Invalid refresh token", "")]
                /\ blacklist' = blacklist
           ELSE /\ blacklist' = blacklist \cup {refresh_token}
                /\ req' = [req EXCEPT ![w] =
                              Response(r, HTTP_200_OK, "Logout successful", "")]
    /\ UNCHANGED <<users, redis_client, redis_up, redis, memory_store, now, usage,
                   outbox, outstanding, lastPut, consumed, fpSeen>>

\* Mutant: logout without its try / except: TokenError leaves the view
Logout_raises(w, access, refresh_token) ==
    /\ Free(w)
    /\ LET r == [NewRequest(w, "logout", "", Blank, "", "", "")
                    EXCEPT !.refresh = refresh_token, !.access = access]
       IN  IF ~IsAuthenticated(access)
           THEN /\ req' = [req EXCEPT ![w] =
                              Response(r, HTTP_401_UNAUTHORIZED,
                                       "Authentication credentials were not provided.", "")]
                /\ blacklist' = blacklist
           ELSE IF refresh_token = NoJWT
           THEN /\ req' = [req EXCEPT ![w] =
                              Response(r, HTTP_400_BAD_REQUEST,
                                       "Refresh token is required", "")]
                /\ blacklist' = blacklist
           ELSE IF RefreshTokenRaises(refresh_token)
           THEN /\ req' = [req EXCEPT ![w] = Unhandled(r, "TokenError")]
                /\ blacklist' = blacklist
           ELSE /\ blacklist' = blacklist \cup {refresh_token}
                /\ req' = [req EXCEPT ![w] =
                              Response(r, HTTP_200_OK, "Logout successful", "")]
    /\ UNCHANGED <<users, redis_client, redis_up, redis, memory_store, now, usage,
                   outbox, outstanding, lastPut, consumed, fpSeen>>

\* Mutant: logout blacklists whatever refresh token it is given, unverified
Logout_blacklists_unverified(w, access, refresh_token) ==
    /\ Free(w)
    /\ LET r == [NewRequest(w, "logout", "", Blank, "", "", "")
                    EXCEPT !.refresh = refresh_token, !.access = access]
       IN  IF ~IsAuthenticated(access)
           THEN /\ req' = [req EXCEPT ![w] =
                              Response(r, HTTP_401_UNAUTHORIZED,
                                       "Authentication credentials were not provided.", "")]
                /\ blacklist' = blacklist
           ELSE IF refresh_token = NoJWT
           THEN /\ req' = [req EXCEPT ![w] =
                              Response(r, HTTP_400_BAD_REQUEST,
                                       "Refresh token is required", "")]
                /\ blacklist' = blacklist
           ELSE /\ blacklist' = blacklist \cup {refresh_token}
                /\ req' = [req EXCEPT ![w] =
                              Response(r, HTTP_200_OK, "Logout successful", "")]
    /\ UNCHANGED <<users, redis_client, redis_up, redis, memory_store, now, usage,
                   outbox, outstanding, lastPut, consumed, fpSeen>>

\* Mutant: an email without account gets a message of its own
LoginView_post_reveals(email, password) ==
    LET user == authenticate(lower(email), password)
    IN  IF email = Blank \/ password = ""
        THEN [status |-> HTTP_400_BAD_REQUEST,
              message |-> "Email and password are required", issues |-> FALSE]
        ELSE IF user # Blank
        THEN IF users[user].is_active
             THEN [status |-> HTTP_200_OK, message |-> "Login successful",
                   issues |-> TRUE]
             ELSE [status |-> HTTP_401_UNAUTHORIZED, message |-> "Account is disabled",
                   issues |-> FALSE]
        ELSE IF ~users[lower(email)].exists
        THEN [status |-> HTTP_401_UNAUTHORIZED, message |-> "No account with this email",
              issues |-> FALSE]
        ELSE [status |-> HTTP_401_UNAUTHORIZED, message |-> "Invalid email or password",
              issues |-> FALSE]

\* The body of LoginView.post: the response it builds, and whether it issues tokens
LoginView_post(email, password) ==
    LET user == authenticate(lower(email), password)
    IN  IF email = Blank \/ password = ""
        THEN [status |-> HTTP_400_BAD_REQUEST,
              message |-> "Email and password are required", issues |-> FALSE]
        ELSE IF user # Blank
        THEN IF users[user].is_active
             THEN [status |-> HTTP_200_OK, message |-> "Login successful",
                   issues |-> TRUE]
             ELSE [status |-> HTTP_401_UNAUTHORIZED, message |-> "Account is disabled",
                   issues |-> FALSE]
        ELSE [status |-> HTTP_401_UNAUTHORIZED, message |-> "Invalid email or password",
              issues |-> FALSE]

\* Mutant: login is counted against the budget of forgot-password
Login_shared_budget(w, ip, email, password) ==
    /\ Free(w)
    /\ LET rl == is_ratelimited(ip, "forgot_password")
           r == NewRequest(w, "login", ip, email, "", password, "")
           res == LoginView_post(email, password)
           refresh == for_user(lower(email))
       IN  /\ usage' = rl.usage
           /\ IF rl.limited
              THEN /\ req' = [req EXCEPT ![w] = Ratelimited(r)]
                   /\ outstanding' = outstanding
              ELSE IF res.issues
              THEN /\ outstanding' = outstanding \cup {refresh}
                   /\ req' = [req EXCEPT ![w] =
                         Response([r EXCEPT !.refresh = refresh,
                                            !.access = access_token(refresh)],
                                  res.status, res.message, "")]
              ELSE /\ outstanding' = outstanding
                   /\ req' = [req EXCEPT ![w] = Response(r, res.status, res.message, "")]
    /\ UNCHANGED <<users, redis_client, redis_up, redis, memory_store, now, outbox,
                   blacklist, lastPut, consumed, fpSeen>>

\* The decorator, then the body
Login(w, ip, email, password) ==
    /\ Free(w)
    /\ LET rl == is_ratelimited(ip, "login")
           r == NewRequest(w, "login", ip, email, "", password, "")
           res == LoginView_post(email, password)
           refresh == for_user(lower(email))
       IN  /\ usage' = rl.usage
           /\ IF rl.limited
              THEN /\ req' = [req EXCEPT ![w] = Ratelimited(r)]
                   /\ outstanding' = outstanding
              ELSE IF res.issues
              THEN /\ outstanding' = outstanding \cup {refresh}
                   /\ req' = [req EXCEPT ![w] =
                         Response([r EXCEPT !.refresh = refresh,
                                            !.access = access_token(refresh)],
                                  res.status, res.message, "")]
              ELSE /\ outstanding' = outstanding
                   /\ req' = [req EXCEPT ![w] = Response(r, res.status, res.message, "")]
    /\ UNCHANGED <<users, redis_client, redis_up, redis, memory_store, now, outbox,
                   blacklist, lastPut, consumed, fpSeen>>

\* Mutant: logout answers 200 for a valid refresh token without blacklisting it
Logout_without_blacklist(w, access, refresh_token) ==
    /\ Free(w)
    /\ LET r == [NewRequest(w, "logout", "", Blank, "", "", "")
                    EXCEPT !.refresh = refresh_token, !.access = access]
       IN  req' = [req EXCEPT ![w] =
              IF ~IsAuthenticated(access)
              THEN Response(r, HTTP_401_UNAUTHORIZED,
                            "Authentication credentials were not provided.", "")
              ELSE IF refresh_token = NoJWT
              THEN Response(r, HTTP_400_BAD_REQUEST, "Refresh token is required", "")
              ELSE IF RefreshTokenRaises(refresh_token)
              THEN Response(r, HTTP_400_BAD_REQUEST, "Invalid refresh token", "")
              ELSE Response(r, HTTP_200_OK, "Logout successful", "")]
    /\ UNCHANGED <<users, redis_client, redis_up, redis, memory_store, now, usage,
                   outbox, outstanding, blacklist, lastPut, consumed, fpSeen>>

\* permission_classes = [IsAuthenticated]; then RefreshToken(refresh_token).blacklist()
\* inside try / except Exception
Logout(w, access, refresh_token) ==
    /\ Free(w)
    /\ LET r == [NewRequest(w, "logout", "", Blank, "", "", "")
                    EXCEPT !.refresh = refresh_token, !.access = access]
       IN  IF ~IsAuthenticated(access)
           THEN /\ req' = [req EXCEPT ![w] =
                              Response(r, HTTP_401_UNAUTHORIZED,
                                       "Authentication credentials were not provided.", "")]
                /\ blacklist' = blacklist
           ELSE IF refresh_token = NoJWT
           THEN /\ req' = [req EXCEPT ![w] =
                              Response(r, HTTP_400_BAD_REQUEST,
                                       "Refresh token is required", "")]
                /\ blacklist' = blacklist
           ELSE IF RefreshTokenRaises(refresh_token)
           THEN /\ req' = [req EXCEPT ![w] =
                              Response(r, HTTP_400_BAD_REQUEST,
                                       "Invalid refresh token", "")]
                /\ blacklist' = blacklist
           ELSE /\ blacklist' = blacklist \cup {refresh_token}
                /\ req' = [req EXCEPT ![w] =
                              Response(r, HTTP_200_OK, "Logout successful", "")]
    /\ UNCHANGED <<users, redis_client, redis_up, redis, memory_store, now, usage,
                   outbox, outstanding, lastPut, consumed, fpSeen>>

\* path('token/refresh/', TokenRefreshView.as_view()): a new access token, or 401
TokenRefresh(w, refresh_token) ==
    /\ Free(w)
    /\ LET r == [NewRequest(w, "token_refresh", "", Blank, "", "", "")
                    EXCEPT !.refresh = refresh_token]
       IN  req' = [req EXCEPT ![w] =
              IF refresh_token = NoJWT
              THEN Response(r, HTTP_400_BAD_REQUEST, "This field is required.", "refresh")
              ELSE IF RefreshTokenRaises(refresh_token)
              THEN Response(r, HTTP_401_UNAUTHORIZED, "Token is invalid or expired", "")
              ELSE Response([r EXCEPT !.access = access_token(refresh_token)],
                            HTTP_200_OK, "", "")]
    /\ UNCHANGED <<users, redis_client, redis_up, redis, memory_store, now, usage,
                   outbox, outstanding, blacklist, lastPut, consumed, fpSeen>>

-----------------------------------------------------------------------------
(* The environment *)

\* Time passes. The Redis server drops the keys whose expiry time has come, and the
\* cache drops the counters of the windows that have ended.
Tick(d) ==
    /\ now + d <= MaxTicks * d
    /\ now' = now + d
    /\ redis' = [k \in DOMAIN redis |->
                    IF redis[k].token # None /\ redis[k].expires_at <= now + d
                    THEN NoEntry ELSE redis[k]]
    /\ usage' = [k \in DOMAIN usage |->
                    IF usage[k].window < now + d THEN NoUsage ELSE usage[k]]
    /\ UNCHANGED <<users, redis_client, redis_up, memory_store, outbox,
                   outstanding, blacklist, req, lastPut, consumed, fpSeen>>

\* The Redis server becomes unreachable: every call on the client raises
RedisFail ==
    /\ redis_client /\ redis_up
    /\ redis_up' = FALSE
    /\ UNCHANGED <<users, redis_client, redis, memory_store, now, usage, outbox,
                   outstanding, blacklist, req, lastPut, consumed, fpSeen>>

RedisRecover ==
    /\ redis_client /\ ~redis_up
    /\ redis_up' = TRUE
    /\ UNCHANGED <<users, redis_client, redis, memory_store, now, usage, outbox,
                   outstanding, blacklist, req, lastPut, consumed, fpSeen>>

\* admin.py: UserAdmin edits is_active
AdminSetActive(email, active) ==
    /\ users[email].exists /\ users[email].is_active # active
    /\ users' = [users EXCEPT ![email].is_active = active]
    /\ UNCHANGED <<redis_client, redis_up, redis, memory_store, now, usage, outbox,
                   outstanding, blacklist, req, lastPut, consumed, fpSeen>>

\* The worker process dies between two steps of a request: no response is sent
Crash(w) ==
    /\ req[w].pc \in {"fp_store", "fp_send", "rp_save", "rp_delete"}
    /\ req' = [req EXCEPT ![w].pc = "crashed"]
    /\ UNCHANGED <<users, redis_client, redis_up, redis, memory_store, now, usage,
                   outbox, outstanding, blacklist, lastPut, consumed, fpSeen>>

-----------------------------------------------------------------------------
(* Specifications *)

UserA == <<"a","@","x">>
UserB == <<"b","@","x">>

\* utils.py module load: redis.Redis(...) returned a client and _memory_store is not
\* defined, or it raised and redis_client = None, _memory_store = {}
InitStore ==
    /\ redis_client \in BOOLEAN
    /\ redis_up = TRUE
    /\ redis = [k \in RawEmails |-> NoEntry]
    /\ memory_store = [defined |-> ~redis_client, data |-> [k \in RawEmails |-> None]]

InitRest(W) ==
    /\ now = 0
    /\ usage = [k \in ClientIPs \X Routes |-> NoUsage]
    /\ outbox = {}
    /\ outstanding = {}
    /\ blacklist = {}
    /\ req = [w \in W |-> Idle]
    /\ lastPut = [k \in Keys |-> [token |-> None, at |-> 0]]
    /\ consumed = {}
    /\ fpSeen = {}

\* The reset flow: one account, the fixture of PasswordResetTestCase.setUp
Init ==
    /\ InitStore
    /\ InitRest({1})
    /\ users = [k \in RawEmails |-> IF k = UserA
                               THEN [exists |-> TRUE, password |-> "Str0ngP@ss1",
                                     is_active |-> TRUE]
                               ELSE NoUser]

HalfHour == expiry_seconds \div 2
HalfDay == REFRESH_TOKEN_LIFETIME \div 2
HalfMinute == period \div 2

Client == "10.0.0.1"

\* A worker takes at most max requests
Budget(w, max) == req[w].n < max

\* The reset flow with a failing store, crashes, deactivation and expiry
Next ==
    \/ \E w \in DOMAIN req, e \in {UserA, UserB, MalformedEmail} :
          Budget(w, MaxRequests) /\ ForgotPasswordBegin(w, Client, e)
    \/ \E w \in DOMAIN req : ForgotPasswordStore(w)
    \/ \E w \in DOMAIN req, email_sent \in BOOLEAN : ForgotPasswordSend(w, email_sent)
    \/ \E w \in DOMAIN req, t \in Tokens, p \in Passwords :
          \E c \in {p, WeakPassword} :
             Budget(w, MaxRequests) /\ ResetPasswordBegin(w, Client, UserA, t, p, c)
    \/ \E w \in DOMAIN req : ResetPasswordSave(w)
    \/ \E w \in DOMAIN req : ResetPasswordDelete(w)
    \/ \E w \in DOMAIN req, t \in Tokens \cup {""} :
          Budget(w, MaxRequests) /\ VerifyResetToken(w, Client, UserA, t)
    \/ \E w \in DOMAIN req : Crash(w)
    \/ Tick(HalfHour)
    \/ RedisFail
    \/ RedisRecover
    \/ \E active \in BOOLEAN : AdminSetActive(UserA, active)

Spec == Init /\ [][Next]_vars

\* The access tokens the clients hold: one came with every refresh token
IssuedAccess ==
    { [user |-> t.user, jti |-> t.jti,
       exp |-> t.exp - REFRESH_TOKEN_LIFETIME + ACCESS_TOKEN_LIFETIME] : t \in outstanding }

\* Sessions: login, logout and refresh around a password reset
NextSession ==
    \/ \E w \in DOMAIN req, e \in {UserA, UserB, Blank}, p \in Passwords \cup {""} :
          Budget(w, MaxRequests) /\ Login(w, Client, e, p)
    \/ \E w \in DOMAIN req, a \in IssuedAccess \cup {NoJWT},
          t \in outstanding \cup {NoJWT, MalformedJWT} :
          Budget(w, MaxRequests) /\ Logout(w, a, t)
    \/ \E w \in DOMAIN req, t \in outstanding \cup {NoJWT, MalformedJWT} :
          Budget(w, MaxRequests) /\ TokenRefresh(w, t)
    \/ \E w \in DOMAIN req :
          Budget(w, MaxRequests) /\ ForgotPasswordBegin(w, Client, UserA)
    \/ \E w \in DOMAIN req : ForgotPasswordStore(w)
    \/ \E w \in DOMAIN req, email_sent \in BOOLEAN : ForgotPasswordSend(w, email_sent)
    \/ \E w \in DOMAIN req, t \in Tokens, p \in Passwords :
          Budget(w, MaxRequests) /\ ResetPasswordBegin(w, Client, UserA, t, p, p)
    \/ \E w \in DOMAIN req : ResetPasswordSave(w)
    \/ \E w \in DOMAIN req : ResetPasswordDelete(w)
    \/ Tick(HalfDay)
    \/ \E active \in BOOLEAN : AdminSetActive(UserA, active)

SpecSession == Init /\ [][NextSession]_vars

\* The rate limiter: requests that change nothing else, within and across windows
NextRate ==
    \/ \E w \in DOMAIN req :
          Budget(w, MaxRateRequests) /\ Login(w, Client, UserA, "Str0ngP@ss2")
    \/ \E w \in DOMAIN req :
          Budget(w, MaxRateRequests) /\ ForgotPasswordBegin(w, Client, UserB)
    \/ \E w \in DOMAIN req :
          /\ Budget(w, MaxRateRequests)
          /\ ResetPasswordBegin(w, Client, UserA, "t1", "Str0ngP@ss2", "Str0ngP@ss2")
    \/ \E w \in DOMAIN req :
          Budget(w, MaxRateRequests) /\ VerifyResetToken(w, Client, UserA, "t1")
    \/ Tick(HalfMinute)

SpecRate == Init /\ [][NextRate]_vars

\* Admission control in front of requests that have effects, within one window: two
\* clients, requests that store tokens, send mail, change passwords and issue
\* session tokens
NextAdmission ==
    \/ \E w \in DOMAIN req :
          Budget(w, MaxAdmissionRequests) /\ Login(w, Client, UserA, "Str0ngP@ss1")
    \/ \E w \in DOMAIN req, ip \in ClientIPs, e \in {UserA, MalformedEmail} :
          Budget(w, MaxAdmissionRequests) /\ ForgotPasswordBegin(w, ip, e)
    \/ \E w \in DOMAIN req : ForgotPasswordStore(w)
    \/ \E w \in DOMAIN req : ForgotPasswordSend(w, TRUE)
    \/ \E w \in DOMAIN req, c \in {"Str0ngP@ss2", WeakPassword} :
          /\ Budget(w, MaxAdmissionRequests)
          /\ ResetPasswordBegin(w, Client, UserA, "t1", "Str0ngP@ss2", c)
    \/ \E w \in DOMAIN req : ResetPasswordSave(w)
    \/ \E w \in DOMAIN req : ResetPasswordDelete(w)
    \/ \E w \in DOMAIN req :
          Budget(w, MaxAdmissionRequests) /\ VerifyResetToken(w, Client, UserA, "t1")

SpecAdmission == Init /\ [][NextAdmission]_vars

\* Accounts and their emails: registration, and every operation that takes an email,
\* with the spellings of RawEmails
NextAccounts ==
    \/ \E w \in DOMAIN req, e \in RawEmails \cup {MalformedEmail},
          c \in {"Str0ngP@ss1", WeakPassword} :
          Budget(w, MaxAccountRequests) /\ Register(w, e, "Str0ngP@ss1", c)
    \/ \E w \in DOMAIN req, e \in RawEmails, p \in Passwords :
          Budget(w, MaxAccountRequests) /\ Login(w, Client, e, p)
    \/ \E w \in DOMAIN req, e \in RawEmails :
          Budget(w, MaxAccountRequests) /\ ForgotPasswordBegin(w, Client, e)
    \/ \E w \in DOMAIN req : ForgotPasswordStore(w)
    \/ \E w \in DOMAIN req : ForgotPasswordSend(w, TRUE)
    \/ \E w \in DOMAIN req, e \in RawEmails, t \in Tokens :
          /\ Budget(w, MaxAccountRequests)
          /\ ResetPasswordBegin(w, Client, e, t, "Str0ngP@ss2", "Str0ngP@ss2")
    \/ \E w \in DOMAIN req : ResetPasswordSave(w)
    \/ \E w \in DOMAIN req : ResetPasswordDelete(w)
    \/ \E w \in DOMAIN req, e \in RawEmails, t \in Tokens :
          Budget(w, MaxAccountRequests) /\ VerifyResetToken(w, Client, e, t)

SpecAccounts == Init /\ [][NextAccounts]_vars

\* Two worker processes serve requests at the same time, one client each
InitConcurrent ==
    /\ InitStore
    /\ InitRest(Workers)
    /\ users = [k \in RawEmails |-> IF k = UserA
                                    THEN [exists |-> TRUE, password |-> "Str0ngP@ss1",
                                          is_active |-> TRUE]
                                    ELSE NoUser]

ClientOf(w) == IF w = 1 THEN "10.0.0.1" ELSE "10.0.0.2"

\* The steps of the password-reset requests of the two workers, interleaved
NextConcurrent ==
    \/ \E w \in DOMAIN req :
          Budget(w, MaxConcurrentRequests) /\ ForgotPasswordBegin(w, ClientOf(w), UserA)
    \/ \E w \in DOMAIN req : ForgotPasswordStore(w)
    \/ \E w \in DOMAIN req : ForgotPasswordSend(w, TRUE)
    \/ \E w \in DOMAIN req, t \in Tokens :
          /\ Budget(w, MaxConcurrentRequests)
          /\ ResetPasswordBegin(w, ClientOf(w), UserA, t, "Str0ngP@ss2", "Str0ngP@ss2")
    \/ \E w \in DOMAIN req : ResetPasswordSave(w)
    \/ \E w \in DOMAIN req : ResetPasswordDelete(w)
    \/ \E w \in DOMAIN req, t \in Tokens :
          Budget(w, MaxConcurrentRequests) /\ VerifyResetToken(w, ClientOf(w), UserA, t)
    \/ RedisFail
    \/ RedisRecover

SpecConcurrent == InitConcurrent /\ [][NextConcurrent]_vars

\* Two accounts, each with sessions of its own
InitOwners ==
    /\ InitStore
    /\ InitRest({1})
    /\ users = [k \in RawEmails |-> IF k \in {UserA, UserB}
                                   THEN [exists |-> TRUE, password |-> "Str0ngP@ss1",
                                         is_active |-> TRUE]
                                   ELSE NoUser]

NextOwners ==
    \/ \E w \in DOMAIN req, e \in {UserA, UserB} :
          Budget(w, MaxOwnerRequests) /\ Login(w, Client, e, "Str0ngP@ss1")
    \/ \E w \in DOMAIN req, a \in IssuedAccess \cup {NoJWT},
          t \in outstanding \cup {NoJWT, MalformedJWT} :
          Budget(w, MaxOwnerRequests) /\ Logout(w, a, t)
    \/ \E w \in DOMAIN req, t \in outstanding :
          Budget(w, MaxOwnerRequests) /\ TokenRefresh(w, t)

SpecOwners == InitOwners /\ [][NextOwners]_vars

-----------------------------------------------------------------------------
(* What the properties speak about *)

\* This step is worker w taking a new request on the route
Started(w, route) == req'[w].n = req[w].n + 1 /\ req'[w].route = route

\* The limiter lets the request that starts in this step through
Admitted(w) == ~is_ratelimited(req'[w].ip, req'[w].route).limited

\* What the store in use holds for the key, whether or not it can be reached now
StoredToken(key) ==
    IF redis_client THEN redis_get(key) ELSE memory_store.data[key]

\* The token of the last put for the key is older than its time to live
Expired(key) ==
    lastPut[key].token # None /\ now >= lastPut[key].at + expiry_seconds

WellFormedReset(r) ==
    ResetPasswordSerializer_is_valid(r.email, r.token, r.password, r.confirm)

\* The request that started in this step was answered with the token error
TokenError(r) ==
    /\ r.pc = "done"
    /\ r.status = 400
    /\ r.errors = "Invalid or expired reset token"

-----------------------------------------------------------------------------
(* C1: once reset-password has succeeded with (e, T) and no forgot-password has
   stored a token for e since, every later reset-password with (e, T) is answered
   400 "invalid or expired reset token" and changes no password. *)
C1_SingleUse ==
    [][\A w \in DOMAIN req :
          ( /\ Started(w, "reset_password")
            /\ Admitted(w)
            /\ WellFormedReset(req'[w])
            /\ <<Key(req'[w].email), req'[w].token>> \in consumed )
          => (TokenError(req'[w]) /\ users' = users)]_vars

\* The same, for the requests that find the Redis server reachable or the module in
\* memory-store mode: it is the failing fallback alone that breaks C1.
C1_SingleUseStoreReachable ==
    [][\A w \in DOMAIN req :
          ( /\ Started(w, "reset_password")
            /\ Admitted(w)
            /\ WellFormedReset(req'[w])
            /\ <<Key(req'[w].email), req'[w].token>> \in consumed
            /\ ~get_reset_token(req'[w].email).raised )
          => (TokenError(req'[w]) /\ users' = users)]_vars

(* C2: at most one token value is accepted for an email: verify-reset-token and
   reset-password accept a token only if it is the token of the last put for that
   email, so after forgot-password stored A and then B, A is rejected. *)
C2_OnlyLastPutAccepted ==
    [][\A w \in DOMAIN req :
          ( \/ Started(w, "verify_reset_token") /\ req'[w].status = HTTP_200_OK
            \/ Started(w, "reset_password") /\ req'[w].pc = "rp_save" )
          => req'[w].token = lastPut[Key(req'[w].email)].token]_vars

\* A was stored and mailed, B was stored after it and is live, and a
\* verify-reset-token with A has been answered 400
C2_Witness ==
    \E w \in DOMAIN req :
       LET r == req[w]
       IN  /\ r.route = "verify_reset_token" /\ r.pc = "done"
           /\ r.status = HTTP_400_BAD_REQUEST
           /\ <<Key(r.email), r.token>> \in outbox
           /\ lastPut[Key(r.email)].token \notin {None, r.token}
           /\ ~get_reset_token(r.email).raised
           /\ token_matches(get_reset_token(r.email).value, lastPut[Key(r.email)].token)

(* C3: forgot-password answers an email without account with the same status and the
   same message as an email of an active account whose mail was delivered. *)
C3_SameResponse ==
    \A x, y \in fpSeen : x.status = y.status /\ x.message = y.message

(* C4: forgot-password for an email without a matching active account (unknown, or
   deactivated) answers 200 and has no token side effect: nothing is generated,
   stored or mailed. *)
C4_NoActiveAccount ==
    [][\A w \in DOMAIN req :
          ( /\ Started(w, "forgot_password")
            /\ Admitted(w)
            /\ EmailField(req'[w].email)
            /\ ~ActiveUser(lower(req'[w].email)) )
          => ( /\ req'[w].pc = "done"
               /\ req'[w].status = HTTP_200_OK
               /\ redis' = redis /\ memory_store' = memory_store
               /\ outbox' = outbox )]_vars

(* C5: reset-password deletes the token only after the new password is persisted:
   in no state, crashes and failures between steps included, has a reset removed
   the token without having saved the password. *)
C5_DeleteAfterSave ==
    \A w \in DOMAIN req :
       req[w].deleted => ( /\ req[w].saved
                           /\ users[lower(req[w].email)].password = req[w].password )

\* A reset that saved the password and then deleted the token
C5_Witness ==
    \E w \in DOMAIN req :
       /\ req[w].route = "reset_password" /\ req[w].status = HTTP_200_OK
       /\ req[w].saved /\ req[w].deleted
       /\ StoredToken(Key(req[w].email)) = None

(* C7: a well-formed reset-password whose token is absent from the store or differs
   from the stored token is answered 400 "invalid or expired reset token" and
   changes no account. *)
C7_BadTokenRejected ==
    [][\A w \in DOMAIN req :
          ( /\ Started(w, "reset_password")
            /\ Admitted(w)
            /\ WellFormedReset(req'[w])
            /\ ~token_matches(StoredToken(Key(req'[w].email)), req'[w].token) )
          => (TokenError(req'[w]) /\ users' = users)]_vars

\* The same, for the requests whose read of the store does not raise
C7_BadTokenRejectedStoreReachable ==
    [][\A w \in DOMAIN req :
          ( /\ Started(w, "reset_password")
            /\ Admitted(w)
            /\ WellFormedReset(req'[w])
            /\ ~token_matches(StoredToken(Key(req'[w].email)), req'[w].token)
            /\ ~get_reset_token(req'[w].email).raised )
          => (TokenError(req'[w]) /\ users' = users)]_vars

(* C9: a stored token expires one hour after the put that stored it: from then on
   verify-reset-token and reset-password do not accept it, whatever was read in
   between. *)
C9_AbsoluteExpiry ==
    [][\A w \in DOMAIN req :
          ( /\ Started(w, "verify_reset_token") \/ Started(w, "reset_password")
            /\ Expired(Key(req'[w].email)) )
          => (req'[w].status # HTTP_200_OK /\ req'[w].pc # "rp_save")]_vars

\* The same, for the tokens that went to the Redis server
C9_AbsoluteExpiryInRedis ==
    [][\A w \in DOMAIN req :
          ( /\ Started(w, "verify_reset_token") \/ Started(w, "reset_password")
            /\ Expired(Key(req'[w].email))
            /\ redis_client )
          => (req'[w].status # HTTP_200_OK /\ req'[w].pc # "rp_save")]_vars

(* C6: after logout has revoked a refresh token R, every later refresh with R fails,
   before R's natural expiry too and from the moment the logout is answered: a
   logout answered 200 has put R on the blacklist, nothing leaves the blacklist,
   and a refresh with a blacklisted token is answered 401 without an access token. *)
C6_RevokedNeverRefreshes ==
    [][ /\ \A w \in DOMAIN req :
              (Started(w, "logout") /\ req'[w].status = HTTP_200_OK)
              => req'[w].refresh \in blacklist'
        /\ blacklist \subseteq blacklist'
        /\ \A w \in DOMAIN req :
              (Started(w, "token_refresh") /\ req'[w].refresh \in blacklist)
              => (req'[w].status = HTTP_401_UNAUTHORIZED /\ req'[w].access = NoJWT)
      ]_vars

\* A refresh with a revoked token that has not yet expired was answered 401
C6_Witness ==
    \E w \in DOMAIN req :
       /\ req[w].route = "token_refresh" /\ req[w].pc = "done"
       /\ req[w].refresh \in blacklist
       /\ now < req[w].refresh.exp
       /\ req[w].status = HTTP_401_UNAUTHORIZED

\* This step is the success response of reset-password of worker w
ResetSucceeds(w) ==
    /\ req[w].pc = "rp_delete"
    /\ req'[w].pc = "done"
    /\ req'[w].status = HTTP_200_OK

(* C8 as stated: after reset-password succeeds for an active account with new
   password P, a following login with P is answered 200 with tokens and a following
   login with the previous password is answered 401. *)
C8_LoginAfterReset ==
    [][\A w \in DOMAIN req :
          (ResetSucceeds(w) /\ ActiveUser(lower(req[w].email))')
          => ( /\ LoginView_post(req[w].email, req[w].password)'.status = HTTP_200_OK
               /\ LoginView_post(req[w].email, req[w].password)'.issues
               /\ LoginView_post(req[w].email, req[w].old_password)'.status
                     = HTTP_401_UNAUTHORIZED )]_vars

(* C8 amended: after reset-password succeeds for an active account with new
   password P, a following admitted login with P is answered 200 with tokens, and
   one with the previous password is answered 401 if that password differs from P. *)
C8_LoginAfterResetAmended ==
    [][\A w \in DOMAIN req :
          (ResetSucceeds(w) /\ ActiveUser(lower(req[w].email))')
          => ( /\ users'[lower(req[w].email)].password = req[w].password
               /\ LoginView_post(req[w].email, req[w].password)'.status = HTTP_200_OK
               /\ LoginView_post(req[w].email, req[w].password)'.issues
               /\ req[w].old_password # req[w].password
                  => LoginView_post(req[w].email, req[w].old_password)'.status
                        = HTTP_401_UNAUTHORIZED )]_vars

\* A login with the password that only a reset can have set was answered 200 with
\* tokens, and the token of that reset has been consumed
C8_Witness ==
    \E w \in DOMAIN req :
       /\ req[w].route = "login" /\ req[w].pc = "done"
       /\ req[w].password = "Str0ngP@ss2"
       /\ req[w].status = HTTP_200_OK
       /\ req[w].refresh \in outstanding
       /\ consumed # {}

\* The quota the claim gives for each route
ClaimedQuota(route) ==
    CASE route = "login" -> 5
      [] route = "forgot_password" -> 3
      [] route = "reset_password" -> 3
      [] route = "verify_reset_token" -> 10

\* The requests the cache has counted for the client on the route in the window
\* that holds the present time
CountedInWindow(ip, route) ==
    IF usage[<<ip, route>>].window = get_window(ip, now)
    THEN usage[<<ip, route>>].count
    ELSE 0

(* C10: per client IP and route, within one window the first N POST requests are
   admitted and get their normal status, every further one gets 429, and in a new
   window requests are admitted again; N is 5 for login, 3 for forgot-password,
   3 for reset-password and 10 for verify-reset-token. *)
C10_RateLimitBoundary ==
    [][\A w \in DOMAIN req : \A route \in Routes : \A ip \in ClientIPs :
          (Started(w, route) /\ req'[w].ip = ip)
          => /\ (req'[w].status = HTTP_429_TOO_MANY_REQUESTS)
                   <=> (CountedInWindow(ip, route) >= ClaimedQuota(route))
             /\ CountedInWindow(ip, route)' = CountedInWindow(ip, route) + 1
      ]_vars

\* The eleventh verify-reset-token of a window was answered 429 after ten that were
\* answered 400
C10_Witness ==
    \E w \in DOMAIN req :
       /\ req[w].route = "verify_reset_token" /\ req[w].pc = "done"
       /\ req[w].status = HTTP_429_TOO_MANY_REQUESTS
       /\ CountedInWindow(req[w].ip, "verify_reset_token") = 11

(* C11: verify-reset-token has a quota of 3 requests a minute per client: the fourth
   request of one client within one window is answered as rate limited. *)
C11_VerifyQuota3 ==
    [][\A w \in DOMAIN req : \A ip \in ClientIPs :
          ( /\ Started(w, "verify_reset_token")
            /\ req'[w].ip = ip
            /\ CountedInWindow(ip, "verify_reset_token") >= 3 )
          => req'[w].status = HTTP_429_TOO_MANY_REQUESTS]_vars

(* C12: a request the rate limiter rejects is rejected before the endpoint's own
   logic runs: it is answered 429 whatever else is wrong with it, and the token
   store, every account, the revocation list, the issued session tokens and the
   sent mails are as they were. *)
C12_RejectedBeforeLogic ==
    [][\A w \in DOMAIN req : \A route \in Routes :
          (Started(w, route) /\ ~Admitted(w))
          => ( /\ req'[w].pc = "done"
               /\ req'[w].status = HTTP_429_TOO_MANY_REQUESTS
               /\ req'[w].refresh = NoJWT /\ req'[w].access = NoJWT
               /\ redis' = redis /\ memory_store' = memory_store
               /\ users' = users
               /\ blacklist' = blacklist /\ outstanding' = outstanding
               /\ outbox' = outbox )]_vars

\* A forgot-password for the active account was rejected by the limiter in the window
\* in which three earlier ones were served: the token of the last of them is still
\* the stored one
C12_Witness ==
    \E w \in DOMAIN req :
       /\ req[w].route = "forgot_password" /\ req[w].pc = "done"
       /\ req[w].status = HTTP_429_TOO_MANY_REQUESTS
       /\ req[w].email = UserA /\ ActiveUser(UserA)
       /\ CountedInWindow(req[w].ip, "forgot_password") = 4
       /\ StoredToken(Key(req[w].email)) # None
       /\ StoredToken(Key(req[w].email)) = lastPut[Key(req[w].email)].token

(* C13: budgets are independent per (client IP, route): a request changes the
   counter of its own client and route only, and whether it is rejected depends on
   that counter only, so an exhausted quota on one route or of one client rejects
   nothing elsewhere. *)
C13_IndependentBudgets ==
    [][\A w \in DOMAIN req : \A route \in Routes : \A ip \in ClientIPs :
          (Started(w, route) /\ req'[w].ip = ip)
          => ( /\ \A k \in (ClientIPs \X Routes) \ {<<ip, route>>} :
                     usage'[k] = usage[k]
               /\ (req'[w].status = HTTP_429_TOO_MANY_REQUESTS)
                     <=> (CountedInWindow(ip, route) >= rate(route)) )]_vars

\* With the forgot-password quota of the first client exhausted in this window, a
\* forgot-password of the second client has been counted and a login of the first
\* client is admitted
C13_Witness ==
    \E w \in DOMAIN req :
       /\ req[w].route = "login" /\ req[w].pc = "done" /\ req[w].ip = Client
       /\ req[w].status = HTTP_200_OK
       /\ CountedInWindow(Client, "forgot_password") > rate("forgot_password")
       /\ CountedInWindow("10.0.0.2", "forgot_password") = 1

\* The token a client may still use for the key: the token of the last put, unless
\* its hour has passed or a reset has consumed it
LiveToken(key) ==
    IF /\ lastPut[key].token # None
       /\ ~Expired(key)
       /\ <<key, lastPut[key].token>> \notin consumed
    THEN lastPut[key].token
    ELSE None

(* C14: verify-reset-token with a non-empty email and token answers 200 if and only
   if a live token is stored for the email and equals the supplied one; when there
   is no token, or it has expired, or was consumed, or differs, it answers the same
   400 "invalid or expired token". *)
C14_VerifyIffLive ==
    [][\A w \in DOMAIN req :
          ( /\ Started(w, "verify_reset_token")
            /\ Admitted(w)
            /\ req'[w].email # Blank /\ req'[w].token # "" )
          => IF token_matches(LiveToken(Key(req'[w].email)), req'[w].token)
             THEN req'[w].status = HTTP_200_OK
             ELSE /\ req'[w].status = HTTP_400_BAD_REQUEST
                  /\ req'[w].errors = "Invalid or expired token"]_vars

\* The same, for the requests that find the Redis server answering
C14_VerifyIffLiveInRedis ==
    [][\A w \in DOMAIN req :
          ( /\ Started(w, "verify_reset_token")
            /\ Admitted(w)
            /\ req'[w].email # Blank /\ req'[w].token # ""
            /\ RedisAnswers )
          => IF token_matches(LiveToken(Key(req'[w].email)), req'[w].token)
             THEN req'[w].status = HTTP_200_OK
             ELSE /\ req'[w].status = HTTP_400_BAD_REQUEST
                  /\ req'[w].errors = "Invalid or expired token"]_vars

(* C15: verify-reset-token does not consume the token: a verify request, valid or
   not, leaves the token store with its expiry times and every account as they
   were, so a token that was reported valid is still the one a following
   reset-password finds and accepts. *)
C15_VerifyKeepsToken ==
    [][\A w \in DOMAIN req : \A e \in Keys :
          (Started(w, "verify_reset_token") /\ Key(req'[w].email) = e)
          => ( /\ redis' = redis
               /\ memory_store' = memory_store
               /\ users' = users
               /\ req'[w].status = HTTP_200_OK
                  => ( /\ ~get_reset_token(e)'.raised
                       /\ token_matches(get_reset_token(e)'.value, req'[w].token) ) )]_vars

\* A token was reported valid and is still stored, with the expiry its put gave it
C15_Witness ==
    \E w \in DOMAIN req :
       /\ req[w].route = "verify_reset_token" /\ req[w].pc = "done"
       /\ req[w].status = HTTP_200_OK
       /\ StoredToken(Key(req[w].email)) = req[w].token
       /\ redis_client => redis[Key(req[w].email)].expires_at
                             = lastPut[Key(req[w].email)].at + expiry_seconds

\* This step is forgot-password of worker w answering after its attempt to send
\* the mail
MailStepAnswers(w) == req[w].pc = "fp_send" /\ req'[w].pc = "done"

(* C16: when forgot-password for an existing active account cannot deliver its mail
   (the send reports failure or the mail channel raises), the caller gets the
   generic server error 500 built by the view, never an unhandled fault; a mail that
   this request did not put in the outbox was not reported as sent. *)
C16_MailFailureIs500 ==
    [][\A w \in DOMAIN req :
          ( /\ MailStepAnswers(w)
            /\ <<Key(req[w].email), req[w].token>> \notin outbox' )
          => ( /\ req'[w].status = HTTP_500_INTERNAL_SERVER_ERROR
               /\ req'[w].message = "Failed to send password reset email"
               /\ req'[w].errors = "Please try again later" )]_vars

\* The token was stored, the mail was not delivered, and the caller was told 500 by
\* the view
C16_Witness ==
    \E w \in DOMAIN req :
       /\ req[w].route = "forgot_password" /\ req[w].pc = "done"
       /\ req[w].status = HTTP_500_INTERNAL_SERVER_ERROR
       /\ req[w].message = "Failed to send password reset email"
       /\ <<Key(req[w].email), req[w].token>> \notin outbox
       /\ lastPut[Key(req[w].email)].token = req[w].token

\* This step is reset-password of worker w looking the account up and going on
LookupStep(w) ==
    /\ req[w].pc = "rp_save"
    /\ req'[w] # req[w]
    /\ req'[w].pc # "crashed"

(* C17: a reset-password whose token matches the stored token while the email has
   no active account (deactivated after the token was issued) is answered 404 and
   changes no account's password. *)
C17_NoAccount404 ==
    [][\A w \in DOMAIN req :
          /\ ( /\ Started(w, "reset_password")
               /\ Admitted(w)
               /\ WellFormedReset(req'[w])
               /\ token_matches(StoredToken(Key(req'[w].email)), req'[w].token)
               /\ ~ActiveUser(Key(req'[w].email)) )
             => (req'[w].pc = "rp_save" /\ users' = users)
          /\ (LookupStep(w) /\ ~ActiveUser(Key(req[w].email)))
             => ( /\ req'[w].pc = "done"
                  /\ req'[w].status = HTTP_404_NOT_FOUND
                  /\ users' = users )]_vars

\* The same, for the requests whose read of the store does not raise
C17_NoAccount404StoreReachable ==
    [][\A w \in DOMAIN req :
          /\ ( /\ Started(w, "reset_password")
               /\ Admitted(w)
               /\ WellFormedReset(req'[w])
               /\ token_matches(StoredToken(Key(req'[w].email)), req'[w].token)
               /\ ~ActiveUser(Key(req'[w].email))
               /\ ~get_reset_token(req'[w].email).raised )
             => (req'[w].pc = "rp_save" /\ users' = users)
          /\ (LookupStep(w) /\ ~ActiveUser(Key(req[w].email)))
             => ( /\ req'[w].pc = "done"
                  /\ req'[w].status = HTTP_404_NOT_FOUND
                  /\ users' = users )]_vars

\* A reset with the matching token for the deactivated account was answered 404
C17_Reached ==
    \E w \in DOMAIN req :
       /\ req[w].route = "reset_password" /\ req[w].pc = "done"
       /\ req[w].status = HTTP_404_NOT_FOUND
       /\ users[Key(req[w].email)].exists /\ ~users[Key(req[w].email)].is_active
       /\ StoredToken(Key(req[w].email)) = req[w].token

(* C18: when every call to the Redis server raises, store_reset_token,
   get_reset_token and delete_reset_token fall back to the process-local store and
   return normally, so that no password-reset request ends in an unhandled fault. *)
C18_FallbackDegrades ==
    /\ \A e \in Keys, t \in Tokens :
          /\ ~store_reset_token(e, t, expiry_seconds).raised
          /\ ~get_reset_token(e).raised
          /\ ~delete_reset_token(e).raised
    /\ \A w \in DOMAIN req :
          req[w].route \in {"forgot_password", "reset_password", "verify_reset_token"}
          => req[w].message # "Server Error (500)"

(* C18, second part: a token put into the fallback store is returned by a following
   get. It holds where the fallback exists, that is when redis.Redis(...) raised at
   module load. *)
C18_FallbackReadsItsWrites ==
    \A e \in Keys, t \in Tokens :
       LET put == store_reset_token(e, t, expiry_seconds)
       IN  (~RedisAnswers /\ ~put.raised) => put.memory_store.data[Key(e)] = t

\* The login that starts in this step carries both fields and is let through
LoginAttempt(w) ==
    /\ Started(w, "login")
    /\ Admitted(w)
    /\ req'[w].email # Blank /\ req'[w].password # ""

(* C19: login fails uniformly for bad credentials: an email without account and a
   registered email with a wrong password both get 401 with the message "Invalid
   email or password", and no tokens. *)
C19_UniformLoginFailure ==
    [][\A w \in DOMAIN req : \A e \in Keys :
          ( /\ LoginAttempt(w)
            /\ Key(req'[w].email) = e
            /\ ~users[e].exists \/ users[e].password # req'[w].password )
          => ( /\ req'[w].status = HTTP_401_UNAUTHORIZED
               /\ req'[w].message = "Invalid email or password"
               /\ req'[w].refresh = NoJWT /\ req'[w].access = NoJWT
               /\ outstanding' = outstanding )]_vars

\* A login for an email without account was answered exactly as LoginView answers
\* the registered account with a wrong password
C19_Witness ==
    \E w \in DOMAIN req :
       /\ req[w].route = "login" /\ req[w].pc = "done"
       /\ req[w].email # Blank
       /\ ~users[Key(req[w].email)].exists
       /\ req[w].status = HTTP_401_UNAUTHORIZED
       /\ req[w].message = LoginView_post(UserA, "wrong").message
       /\ req[w].status = LoginView_post(UserA, "wrong").status
       /\ users[UserA].exists /\ users[UserA].is_active

(* C20: login with the correct password of an account that exists but is
   deactivated fails with a failure that can be told from the one for an invalid
   email or password ("account disabled"), and issues no tokens. *)
C20_DisabledDistinguishable ==
    [][\A w \in DOMAIN req : \A e \in Keys :
          ( /\ LoginAttempt(w)
            /\ Key(req'[w].email) = e
            /\ users[e].exists /\ ~users[e].is_active
            /\ users[e].password = req'[w].password )
          => ( /\ req'[w].status = HTTP_401_UNAUTHORIZED
               /\ req'[w].message # "Invalid email or password"
               /\ req'[w].refresh = NoJWT /\ req'[w].access = NoJWT
               /\ outstanding' = outstanding )]_vars

\* What does hold for it: the login is refused with 401 and issues no tokens
C20_DisabledRefused ==
    [][\A w \in DOMAIN req : \A e \in Keys :
          ( /\ LoginAttempt(w)
            /\ Key(req'[w].email) = e
            /\ users[e].exists /\ ~users[e].is_active )
          => ( /\ req'[w].status = HTTP_401_UNAUTHORIZED
               /\ req'[w].refresh = NoJWT /\ req'[w].access = NoJWT
               /\ outstanding' = outstanding )]_vars

\* The supplied password is the stored password of an active account with the
\* supplied email
GoodCredentials(email, password) ==
    /\ email # Blank /\ password # ""
    /\ users[Key(email)].exists
    /\ users[Key(email)].is_active
    /\ users[Key(email)].password = password

(* C21: login issues an access / refresh pair only if the supplied password is the
   stored password of an active account with the supplied email. Every other login
   issues no tokens and changes no state: 400 when the email or the password is
   missing, 401 otherwise. *)
C21_TokensOnlyForGoodCredentials ==
    [][\A w \in DOMAIN req :
          (Started(w, "login") /\ Admitted(w))
          => IF GoodCredentials(req'[w].email, req'[w].password)
             THEN /\ req'[w].status = HTTP_200_OK
                  /\ req'[w].refresh \in outstanding' \ outstanding
             ELSE /\ req'[w].status =
                        IF req'[w].email = Blank \/ req'[w].password = ""
                        THEN HTTP_400_BAD_REQUEST ELSE HTTP_401_UNAUTHORIZED
                  /\ req'[w].refresh = NoJWT /\ req'[w].access = NoJWT
                  /\ outstanding' = outstanding
                  /\ users' = users /\ blacklist' = blacklist
                  /\ redis' = redis /\ memory_store' = memory_store
                  /\ outbox' = outbox]_vars

\* A login without password was answered 400 and issued nothing, after a login with
\* good credentials had issued a refresh token
C21_Witness ==
    \E w \in DOMAIN req :
       /\ req[w].route = "login" /\ req[w].pc = "done"
       /\ req[w].email = UserA /\ req[w].password = ""
       /\ req[w].status = HTTP_400_BAD_REQUEST
       /\ req[w].refresh = NoJWT
       /\ Cardinality(outstanding) = 1

(* C22: logout with an absent refresh token, or with a malformed, expired or
   otherwise invalid one, is answered 400 by the view, and the revocation list is
   unchanged. *)
C22_LogoutInvalidToken ==
    [][\A w \in DOMAIN req :
          ( /\ Started(w, "logout")
            /\ IsAuthenticated(req'[w].access)
            /\ req'[w].refresh = NoJWT \/ RefreshTokenRaises(req'[w].refresh) )
          => ( /\ req'[w].pc = "done"
               /\ req'[w].status = HTTP_400_BAD_REQUEST
               /\ req'[w].message \in {"Refresh token is required",
                                       "Invalid refresh token"}
               /\ blacklist' = blacklist )]_vars

\* A logout with an expired refresh token was answered 400 and revoked nothing
C22_Witness ==
    \E w \in DOMAIN req :
       /\ req[w].route = "logout" /\ req[w].pc = "done"
       /\ req[w].refresh.jti > 0 /\ now >= req[w].refresh.exp
       /\ req[w].status = HTTP_400_BAD_REQUEST
       /\ req[w].message = "Invalid refresh token"
       /\ req[w].refresh \notin blacklist

\* Two spellings of one email
SameEmail(e1, e2) == lower(e1) = lower(e2)

\* Every stored account email and every token-store key is lowercase
LowercaseStored ==
    \A e \in RawEmails :
       ( \/ users[e].exists
         \/ redis[e].token # None
         \/ memory_store.data[e] # None ) => e = lower(e)

\* The operations answer two spellings of one email alike
SpellingsAgree ==
    \A e1, e2 \in RawEmails :
       SameEmail(e1, e2) =>
          /\ \A p \in Passwords : LoginView_post(e1, p) = LoginView_post(e2, p)
          /\ get_reset_token(e1) = get_reset_token(e2)
          /\ delete_reset_token(e1) = delete_reset_token(e2)
          /\ \A t \in Tokens : store_reset_token(e1, t, expiry_seconds)
                                  = store_reset_token(e2, t, expiry_seconds)
          /\ ForgotPasswordSerializer_is_valid(e1) = ForgotPasswordSerializer_is_valid(e2)
          /\ \A p \in Passwords : UserRegistrationSerializer_is_valid(e1, p, p)
                                     = UserRegistrationSerializer_is_valid(e2, p, p)

\* A step of a request that carries an email touches the account and the key of
\* the lowercase spelling only
TouchesOwnKeyOnly ==
    \A w \in DOMAIN req :
       (req'[w] # req[w] /\ req'[w].email \in RawEmails)
       => \A k \in RawEmails \ {lower(req'[w].email)} :
             /\ users'[k] = users[k]
             /\ redis'[k] = redis[k]
             /\ memory_store'.data[k] = memory_store.data[k]

(* C23: email matching is case-insensitive throughout: register, login,
   forgot-password, verify-reset-token and reset-password treat two spellings that
   differ in letter case as the same account and the same token-store key, and
   every stored account email and every token-store key is lowercase. *)
C23_CaseInsensitive ==
    /\ [](LowercaseStored /\ SpellingsAgree)
    /\ [][TouchesOwnKeyOnly]_vars

\* A reset-password spelled in capitals has set the password of the lowercase
\* account and consumed the token under the lowercase key
C23_Witness ==
    \E w \in DOMAIN req :
       /\ req[w].route = "reset_password" /\ req[w].pc = "done"
       /\ req[w].status = HTTP_200_OK
       /\ req[w].email = <<"A", "@", "X">>
       /\ users[UserA].password = req[w].password
       /\ <<UserA, req[w].token>> \in consumed

(* C24: registration keeps account emails unique: a register request whose email
   equals, ignoring case, the email of an existing account is answered 400 with an
   email error and creates no account; a valid request with a new email creates
   exactly one account and is answered 201 with an access and a refresh token. *)
C24_RegistrationUnique ==
    [][\A w \in DOMAIN req : \A e \in RawEmails :
          (Started(w, "register") /\ req'[w].email = e)
          => IF users[lower(e)].exists
             THEN /\ req'[w].status = HTTP_400_BAD_REQUEST
                  /\ req'[w].errors = "email"
                  /\ users' = users
                  /\ outstanding' = outstanding
             ELSE (validate_password(req'[w].password)
                      /\ req'[w].password = req'[w].confirm)
                  => /\ req'[w].status = HTTP_201_CREATED
                     /\ users'[lower(e)].exists
                     /\ users'[lower(e)].password = req'[w].password
                     /\ \A k \in RawEmails \ {lower(e)} : users'[k] = users[k]
                     /\ req'[w].refresh \in outstanding' \ outstanding
                     /\ req'[w].access.jti > 0]_vars

\* A registration spelled in capitals was refused for the lowercase account, and
\* another one has created exactly one new account
C24_Witness ==
    \E w \in DOMAIN req :
       /\ req[w].route = "register" /\ req[w].pc = "done"
       /\ req[w].email = <<"A", "@", "X">>
       /\ req[w].status = HTTP_400_BAD_REQUEST /\ req[w].errors = "email"
       /\ users[UserB].exists
       /\ Cardinality({e \in RawEmails : users[e].exists}) = 2

(* C25: the verify-reset-token response carries a boolean result: a matching stored
   token gives 200 with valid = true, a non-matching or absent token gives 400 with
   valid = false, and the validation failure for a missing email or token carries
   no such result. *)
C25_BooleanResult ==
    [][\A w \in DOMAIN req :
          ( /\ Started(w, "verify_reset_token")
            /\ Admitted(w)
            /\ ~get_reset_token(UserA).raised )
          => IF req'[w].email = Blank \/ req'[w].token = ""
             THEN req'[w].status = HTTP_400_BAD_REQUEST /\ req'[w].valid = "absent"
             ELSE IF token_matches(StoredToken(Key(req'[w].email)), req'[w].token)
             THEN req'[w].status = HTTP_200_OK /\ req'[w].valid = "true"
             ELSE req'[w].status = HTTP_400_BAD_REQUEST /\ req'[w].valid = "false"]_vars

\* What does hold: valid = true comes with 200 only, the 400 for a token that does
\* not match carries no valid field, and its errors differ from those of the
\* validation failure
C25_ResultByStatusAndErrors ==
    [][\A w \in DOMAIN req :
          ( /\ Started(w, "verify_reset_token")
            /\ Admitted(w)
            /\ ~get_reset_token(UserA).raised )
          => IF req'[w].email = Blank \/ req'[w].token = ""
             THEN /\ req'[w].status = HTTP_400_BAD_REQUEST
                  /\ req'[w].valid = "absent"
                  /\ req'[w].errors = "Email and token are required"
             ELSE IF token_matches(StoredToken(Key(req'[w].email)), req'[w].token)
             THEN req'[w].status = HTTP_200_OK /\ req'[w].valid = "true"
             ELSE /\ req'[w].status = HTTP_400_BAD_REQUEST
                  /\ req'[w].valid = "absent"
                  /\ req'[w].errors = "Invalid or expired token"]_vars

\* Worker w has completed a forgot-password that stored its token and sent its mail
ForgotCompleted(w) ==
    /\ req[w].route = "forgot_password" /\ req[w].pc = "done"
    /\ req[w].status = HTTP_200_OK /\ req[w].token # ""

(* C26: concurrent forgot-password requests for one email are last-write-wins:
   under every interleaving, a token is accepted only if it is the token of the
   later put, and once both requests have completed that token, and no other, is
   the one the store holds for verify-reset-token and reset-password. *)
C26_LastWriteWins ==
    /\ [][\A w \in DOMAIN req :
             ( \/ Started(w, "verify_reset_token") /\ req'[w].status = HTTP_200_OK
               \/ Started(w, "reset_password") /\ req'[w].pc = "rp_save" )
             => req'[w].token = lastPut[Key(req'[w].email)].token]_vars
    /\ []((\A w \in DOMAIN req : ForgotCompleted(w) /\ req[w].email = UserA)
          => /\ lastPut[UserA].token \in {req[w].token : w \in DOMAIN req}
             /\ \A t \in Tokens :
                   token_matches(StoredToken(UserA), t) <=> t = lastPut[UserA].token)

\* Both requests are in flight with different tokens and both have put: the store
\* holds the token of the later put, that of worker 1
C26_Witness ==
    /\ \A w \in DOMAIN req : req[w].route = "forgot_password" /\ req[w].pc = "fp_send"
    /\ req[1].token # req[2].token
    /\ lastPut[UserA].token = req[1].token
    /\ StoredToken(UserA) = req[1].token

(* C27: single use holds under concurrency: of two interleaved reset-password
   requests with the same valid (email, token), at most one succeeds; a reset never
   succeeds with a token that a reset has consumed since it was put. *)
C27_SingleUseConcurrent ==
    [][\A w \in DOMAIN req :
          ResetSucceeds(w)
          => <<Key(req[w].email), req[w].token>> \notin consumed]_vars

(* C28: a successful reset-password removes only the token it validated: when its
   delete runs while the store holds another token for the email, put by a
   forgot-password in between, that token stays stored. *)
C28_DeletesOnlyValidated ==
    [][\A w \in DOMAIN req : \A e \in Keys :
          ( /\ req[w].pc = "rp_delete" /\ req'[w].pc = "done"
            /\ Key(req[w].email) = e
            /\ StoredToken(e) \notin {None, req[w].token} )
          => StoredToken(e)' = StoredToken(e)]_vars

\* A put for the key completed at this instant and nothing has deleted the key since
JustPut(key) ==
    /\ lastPut[key].token # None
    /\ lastPut[key].at = now
    /\ <<key, lastPut[key].token>> \notin consumed

(* C29: read-your-writes on one email key: a store_reset_token(email, T) followed
   immediately by get_reset_token(email), with no other write to the key in
   between, returns T, also when the availability of the Redis server changes
   between the two calls. *)
C29_ReadYourWrites ==
    \A e \in Keys :
       JustPut(e) => get_reset_token(e) = [raised |-> FALSE, value |-> lastPut[e].token]

\* C29, the part that holds: the get returns T whenever the store that took the
\* put can be reached at the time of the get
C29_ReadYourWritesWhileReachable ==
    \A e \in Keys :
       (JustPut(e) /\ (redis_client => redis_up))
          => get_reset_token(e) = [raised |-> FALSE, value |-> lastPut[e].token]

C29_Reached ==
    \E e \in Keys : JustPut(e) /\ redis_client /\ redis_up /\ outbox # {}

(* C30: an older token does not become valid again through an outage: when token A
   is in Redis and a forgot-password then puts token B for the same email while
   the Redis server is down, a reset-password with A after the server is back is
   not accepted. *)
C30_NoRevivalThroughOutage ==
    [][\A w \in DOMAIN req :
          ( /\ req[w].route = "forgot_password"
            /\ req[w].pc = "done"
            /\ req[w].token # ""
            /\ Started(w, "reset_password")
            /\ Key(req'[w].email) = Key(req[w].email)
            /\ req'[w].token # req[w].token )
          => req'[w].pc # "rp_save"]_vars

(* C31: a token written to the process-local fallback store obeys the same expiry
   as one written to Redis: one hour after it was stored, get_reset_token no longer
   returns it. *)
C31_FallbackExpiry ==
    \A e \in Keys :
       (~redis_client /\ memory_store.defined /\ Expired(e))
          => get_reset_token(e).value # lastPut[e].token

\* This step is the delivery attempt of worker w's forgot-password request
DeliveryAttempt(w) ==
    req[w].route = "forgot_password" /\ req[w].pc = "fp_send" /\ req'[w].pc = "done"

\* C32, the part that holds: when delivery is attempted the token of the request is
\* the token of the last put for the email, it is what the store holds until its
\* hour has passed, and a mail that leaves carries this token
C32_StoredBeforeMailed ==
    [][\A w \in DOMAIN req :
          DeliveryAttempt(w)
          => /\ lastPut[Key(req[w].email)].token = req[w].token
             /\ ~Expired(Key(req[w].email))
                   => StoredToken(Key(req[w].email)) = req[w].token
             /\ outbox' \ outbox \subseteq {<<Key(req[w].email), req[w].token>>}]_vars

C32_Reached ==
    \E w \in DOMAIN req :
       /\ req[w].route = "forgot_password" /\ req[w].pc = "done"
       /\ req[w].status = HTTP_200_OK
       /\ <<Key(req[w].email), req[w].token>> \in outbox
       /\ req[w].n > 1

(* C32: for a forgot-password request on an active account the steps happen once
   each and in the order generate, store, send: the token is already stored
   (overwriting any prior token, time to live one hour) when delivery is attempted,
   and the token that is mailed is the token that was stored. *)
C32_GenerateStoreSend ==
    /\ C32_StoredBeforeMailed
    /\ [][\A w \in DOMAIN req :
             (req[w].route = "forgot_password" /\ req[w].pc = "fp_store")
             => req'[w].pc \in {"fp_store", "fp_send", "crashed"}]_vars
    /\ [](\A w \in DOMAIN req :
             ( /\ req[w].route = "forgot_password" /\ req[w].pc \in {"fp_send", "done"}
               /\ req[w].token # ""
               /\ lastPut[Key(req[w].email)].token = req[w].token
               /\ Expired(Key(req[w].email)) )
             => StoredToken(Key(req[w].email)) # req[w].token)

\* The last request of worker w was a forgot-password answered with the
\* delivery-failure response
DeliveryFailed(w) ==
    /\ req[w].route = "forgot_password" /\ req[w].pc = "done"
    /\ req[w].status = HTTP_500_INTERNAL_SERVER_ERROR
    /\ req[w].message = "Failed to send password reset email"

\* This step starts a verify-reset-token or a well-formed reset-password of worker w
\* for the email of its last request, and the limiter lets it through
FollowUp(w) ==
    /\ \/ Started(w, "verify_reset_token")
       \/ Started(w, "reset_password") /\ WellFormedReset(req'[w])
    /\ Admitted(w)
    /\ req'[w].token # ""
    /\ Key(req'[w].email) = Key(req[w].email)

\* The request that started in this step found its token valid
Accepted(w) ==
    \/ req'[w].route = "verify_reset_token" /\ req'[w].status = HTTP_200_OK
    \/ req'[w].route = "reset_password" /\ req'[w].pc = "rp_save"

(* C33: when forgot-password for an active account ends in the 500 delivery-failure
   response, the new token has already replaced any previous token and stays
   stored: the previous token is rejected, and the new, undelivered token is
   accepted by verify-reset-token and reset-password until it expires. *)
C33_UndeliveredTokenLive ==
    /\ [](\A w \in DOMAIN req :
             DeliveryFailed(w)
             => /\ lastPut[Key(req[w].email)].token = req[w].token
                /\ ~Expired(Key(req[w].email))
                      => StoredToken(Key(req[w].email)) = req[w].token)
    /\ [][\A w \in DOMAIN req :
             (DeliveryFailed(w) /\ FollowUp(w))
             => /\ req'[w].token # req[w].token => ~Accepted(w)
                /\ (req'[w].token = req[w].token /\ ~Expired(Key(req[w].email)))
                      => Accepted(w)]_vars

\* The same, for the follow-up requests whose read of the store does not raise
C33_UndeliveredTokenLiveStoreReachable ==
    /\ [](\A w \in DOMAIN req :
             DeliveryFailed(w)
             => /\ lastPut[Key(req[w].email)].token = req[w].token
                /\ ~Expired(Key(req[w].email))
                      => StoredToken(Key(req[w].email)) = req[w].token)
    /\ [][\A w \in DOMAIN req :
             (DeliveryFailed(w) /\ FollowUp(w) /\ ~get_reset_token(req[w].email).raised)
             => /\ req'[w].token # req[w].token => ~Accepted(w)
                /\ (req'[w].token = req[w].token /\ ~Expired(Key(req[w].email)))
                      => Accepted(w)]_vars

C33_Reached ==
    \E w \in DOMAIN req :
       /\ req[w].route = "reset_password" /\ req[w].pc = "rp_save"
       /\ <<Key(req[w].email), req[w].token>> \notin outbox
       /\ outbox # {}

\* This step ends a reset-password of worker w in one of its failure responses
ResetFails(w) ==
    /\ req'[w].route = "reset_password"
    /\ req'[w] # req[w]
    /\ req'[w].pc = "done"
    /\ req'[w].status \in {HTTP_400_BAD_REQUEST, HTTP_404_NOT_FOUND}

(* C34: a reset-password request that fails leaves the state unchanged: whether it
   fails on validation, on a token mismatch (400) or on a missing active account
   (404), the stored token of the email is neither deleted nor altered and no
   password changes, so the correct token is still accepted afterwards; validation
   comes before the token, so an invalid request with the correct token does not
   consume it. *)
C34_FailedResetChangesNothing ==
    /\ [][\A w \in DOMAIN req :
             ResetFails(w)
             => /\ redis' = redis
                /\ memory_store' = memory_store
                /\ users' = users
                /\ \A e \in Keys : StoredToken(e)' = StoredToken(e)
                /\ ~WellFormedReset(req'[w]) => req'[w].errors = "fields"]_vars
    /\ [](\A w \in DOMAIN req :
             ( /\ req[w].route = "reset_password" /\ req[w].pc = "done"
               /\ req[w].status \in {HTTP_400_BAD_REQUEST, HTTP_404_NOT_FOUND} )
             => (~req[w].saved /\ ~req[w].deleted))

\* An invalid request that carried the correct token was refused, and the token is
\* still stored and still the one that a read returns
C34_Witness ==
    \E w \in DOMAIN req :
       /\ req[w].route = "reset_password" /\ req[w].pc = "done"
       /\ req[w].status = HTTP_400_BAD_REQUEST
       /\ req[w].errors = "fields"
       /\ req[w].password # req[w].confirm
       /\ ~get_reset_token(req[w].email).raised
       /\ token_matches(get_reset_token(req[w].email).value, req[w].token)
       /\ users[Key(req[w].email)].password = "Str0ngP@ss1"

(* C35: revocation is idempotent: logging out twice with the same refresh token
   leaves the revocation list as logging out once left it, the token stays
   revoked, and the second logout ends in a response built by the view, not in an
   unhandled fault. *)
C35_RevocationIdempotent ==
    [][\A w \in DOMAIN req :
          (Started(w, "logout") /\ req'[w].refresh \in blacklist)
          => ( /\ blacklist' = blacklist
               /\ req'[w].refresh \in blacklist'
               /\ req'[w].pc = "done"
               /\ req'[w].status \in {HTTP_200_OK, HTTP_400_BAD_REQUEST,
                                      HTTP_401_UNAUTHORIZED} )]_vars

\* The second logout with a revoked token, by a caller whose access token is still
\* good, was answered by the view and the list holds the one token
C35_Witness ==
    \E w \in DOMAIN req :
       /\ req[w].route = "logout" /\ req[w].pc = "done"
       /\ IsAuthenticated(req[w].access)
       /\ req[w].refresh \in blacklist
       /\ now < req[w].refresh.exp
       /\ req[w].status = HTTP_400_BAD_REQUEST
       /\ blacklist = {req[w].refresh}

\* This step is a step of worker w's reset-password request
ResetStep(w) ==
    /\ req'[w] # req[w]
    /\ req'[w].route = "reset_password"
    /\ req'[w].pc # "crashed"

(* C36: a successful reset-password changes only the password of the account and
   the reset token entry of that email: it leaves the revocation list and every
   refresh token issued before untouched, so a refresh token issued to the account
   before the reset still refreshes afterwards. *)
C36_ResetFrame ==
    [][\A w \in DOMAIN req :
          ResetStep(w)
          => ( /\ blacklist' = blacklist
               /\ outstanding' = outstanding
               /\ \A t \in outstanding : RefreshTokenRaises(t)' = RefreshTokenRaises(t)
               /\ \A e \in RawEmails :
                     /\ users'[e] = [users[e] EXCEPT !.password = users'[e].password]
                     /\ e # Key(req'[w].email)
                           => ( /\ users'[e] = users[e]
                                /\ redis'[e] = redis[e]
                                /\ memory_store'.data[e] = memory_store.data[e] ) )]_vars

\* A reset has succeeded and a refresh token issued to the account before it is
\* one that the refresh endpoint accepts
C36_Witness ==
    \E w \in DOMAIN req :
       /\ req[w].route = "reset_password" /\ req[w].pc = "done"
       /\ req[w].status = HTTP_200_OK
       /\ users[Key(req[w].email)].password = req[w].password
       /\ req[w].old_password # req[w].password
       /\ \E t \in outstanding :
             t.user = Key(req[w].email) /\ ~RefreshTokenRaises(t)

(* C37: logout revokes exactly the refresh token presented in the request body and
   does not check whose it is: an authenticated caller that presents a valid
   refresh token issued to another account gets 200 and that token is revoked,
   while the caller's own refresh token stays usable. *)
C37_LogoutIgnoresOwner ==
    [][\A w \in DOMAIN req :
          ( /\ Started(w, "logout")
            /\ IsAuthenticated(req'[w].access)
            /\ req'[w].refresh # NoJWT
            /\ ~RefreshTokenRaises(req'[w].refresh) )
          => ( /\ req'[w].status = HTTP_200_OK
               /\ blacklist' = blacklist \cup {req'[w].refresh}
               /\ \A t \in outstanding :
                     t # req'[w].refresh
                     => RefreshTokenRaises(t)' = RefreshTokenRaises(t) )]_vars

\* A caller logged out with a refresh token of the other account: the answer was
\* 200, that token is revoked and a refresh token of the caller is still good
C37_Witness ==
    \E w \in DOMAIN req :
       /\ req[w].route = "logout" /\ req[w].pc = "done"
       /\ req[w].status = HTTP_200_OK
       /\ req[w].refresh.user # req[w].access.user
       /\ req[w].refresh \in blacklist
       /\ \E t \in outstanding :
             t.user = req[w].access.user /\ ~RefreshTokenRaises(t)

====
